---- MODULE Spec2Model ----
(***************************************************************************)
(* A model of the obscurer package: the md5 obscurer, the in-memory store, *)
(* the response-capturing responseWriter and the intercepting handler.     *)
(*                                                                         *)
(* Strings are sequences of one-character strings, so that trimming,       *)
(* hex rendering, escaping and substring replacement are computed the way  *)
(* the code computes them.                                                 *)
(***************************************************************************)
EXTENDS Integers, Sequences, FiniteSets, TLC

VARIABLES
    store,      \* memoryStore.store: obscured path -> original URL (a copy)
    last,       \* the last call made on the Store interface by the application, with its result
    pc,         \* position of the request being served by handler.ServeHTTP
    clientURL,  \* the URL of the request as it arrived from the client
    rURL,       \* r.URL, as the handler and the wrapped handler see it
    inner,      \* what the wrapped handler did with the responseWriter it was given
    rw,         \* responseWriter: captured status and body
    headers,    \* the header map of the underlying http.ResponseWriter (rw.Header())
    transport,  \* calls received by the underlying http.ResponseWriter, in order
    calls,      \* calls made by the handler during this request, in order
    served,     \* number of requests accepted so far
    arrival,    \* the store as it was when the request being served arrived
    faulty,     \* whether the Store behind the handler is a backend whose Put/Remove can fail
    gor,        \* goroutines calling memoryStore concurrently: their position and locals
    published,  \* obscured path -> the original the latest Get returned for it, until the path is deleted
    fn,         \* the latest call of a pure function of the package: its argument and its result
    hash        \* md5Obscurer.hash of the Default obscurer, as goroutines calling Obscure at once find it

vars == <<store, last, pc, clientURL, rURL, inner, rw, headers, transport, calls, served, arrival, faulty, gor, published, fn, hash>>

\* what only the callers of the Store interface outside the handler change
appVars == <<last, gor, published>>

\* what only a request served by the handler changes
reqVars == <<pc, clientURL, rURL, inner, rw, headers, transport, calls, served, arrival, faulty>>

----------------------------------------------------------------------------
(* Strings *)

Empty == << >>

\* the form feed of "example.com\foo": a control character, which url.Parse rejects
CTL == "\f"

\* strings.TrimPrefix(s, "/"): one leading slash is removed
TrimPrefix(s) == IF s # Empty /\ Head(s) = "/" THEN Tail(s) ELSE s

RECURSIVE TrimLeft(_)
\* strings.TrimLeft(s, "/"): every leading slash is removed
TrimLeft(s) ==
    IF s # Empty /\ Head(s) = "/" THEN TrimLeft(Tail(s)) ELSE s

\* fmt's %x of one byte: two lowercase hexadecimal digits
HexByte(c) ==
    CASE c = "/" -> <<"2", "f">>
      [] c = "a" -> <<"6", "1">>
      [] c = "b" -> <<"6", "2">>
      [] c = "h" -> <<"6", "8">>
      [] c = "x" -> <<"7", "8">>
      [] c = " " -> <<"2", "0">>
      [] c = "<" -> <<"3", "c">>
      [] c = ">" -> <<"3", "e">>
      [] c = ";" -> <<"3", "b">>
      [] c = "," -> <<"2", "c">>
      [] c = "?" -> <<"3", "f">>
      [] c = "#" -> <<"2", "3">>
      [] c = "%" -> <<"2", "5">>
      [] c = "2" -> <<"3", "2">>
      [] c = "0" -> <<"3", "0">>
      [] c = "3" -> <<"3", "3">>
      [] c = "C" -> <<"4", "3">>
      [] c = "E" -> <<"4", "5">>
      [] OTHER   -> <<"0", "c">>

RECURSIVE Hex(_)
\* fmt.Sprintf("%x", bytes)
Hex(s) == IF s = Empty THEN Empty ELSE HexByte(Head(s)) \o Hex(Tail(s))

\* hex of md5.New().Sum(nil): the digest of the empty input, which is all
\* the hash ever holds since nothing is written to it
EmptyDigestHex ==
    <<"d","4","1","d","8","c","d","9","8","f","0","0","b","2","0","4",
      "e","9","8","0","0","9","9","8","e","c","f","8","4","2","7","e">>

IsPrefix(p, s) == Len(p) <= Len(s) /\ SubSeq(s, 1, Len(p)) = p

Drop(s, n) == SubSeq(s, n + 1, Len(s))

Contains(s, c) == \E i \in 1..Len(s) : s[i] = c

\* strings.Index for a one-character separator; 0 when absent
IndexOf(s, c) == IF Contains(s, c) THEN CHOOSE i \in 1..Len(s) : s[i] = c /\ \A j \in 1..(i-1) : s[j] # c ELSE 0

RECURSIVE ReplaceAll(_, _, _)
\* strings.ReplaceAll(s, old, new): every non-overlapping occurrence, left to
\* right; an empty old matches before every character and at the end
ReplaceAll(s, old, new) ==
    IF old = Empty
    THEN IF s = Empty THEN new ELSE new \o <<Head(s)>> \o ReplaceAll(Tail(s), old, new)
    ELSE IF s = Empty THEN Empty
    ELSE IF IsPrefix(old, s) THEN new \o ReplaceAll(Drop(s, Len(old)), old, new)
    ELSE <<Head(s)>> \o ReplaceAll(Tail(s), old, new)

----------------------------------------------------------------------------
(* net/url *)

URL(scheme, host, path, query, fragment) ==
    [scheme |-> scheme, host |-> host, path |-> path, forceQuery |-> FALSE,
     rawQuery |-> query, fragment |-> fragment]

\* url.Parse fails on a control character anywhere in the text
ParseOK(s) == ~ Contains(s, CTL)

\* url.Parse of a text without scheme: fragment after the first '#', query
\* after the first '?', authority when the rest starts with "//"
Parse(s) ==
    LET h    == IndexOf(s, "#")
        frag == IF h = 0 THEN Empty ELSE Drop(s, h)
        s1   == IF h = 0 THEN s ELSE SubSeq(s, 1, h - 1)
        q    == IndexOf(s1, "?")
        qry  == IF q = 0 THEN Empty ELSE Drop(s1, q)
        s2   == IF q = 0 THEN s1 ELSE SubSeq(s1, 1, q - 1)
        auth == IsPrefix(<<"/", "/">>, s2)
        s3   == IF auth THEN Drop(s2, 2) ELSE s2
        p    == IndexOf(s3, "/")
        host == IF ~ auth THEN Empty ELSE IF p = 0 THEN s3 ELSE SubSeq(s3, 1, p - 1)
        path == IF ~ auth THEN s2 ELSE IF p = 0 THEN Empty ELSE Drop(s3, p - 1)
    IN  [scheme |-> Empty, host |-> host, path |-> path,
         forceQuery |-> (q # 0 /\ qry = Empty), rawQuery |-> qry, fragment |-> frag]

\* url's escape in path mode: the characters that must be percent-encoded
EscapeByte(c) ==
    CASE c = " " -> <<"%", "2", "0">>
      [] c = "<" -> <<"%", "3", "C">>
      [] c = ">" -> <<"%", "3", "E">>
      [] c = "?" -> <<"%", "3", "F">>
      [] c = "#" -> <<"%", "2", "3">>
      [] c = "%" -> <<"%", "2", "5">>
      [] c = CTL -> <<"%", "0", "C">>
      [] OTHER   -> <<c>>

RECURSIVE EscapedPath(_)
\* (*URL).EscapedPath when RawPath is not a valid encoding of Path
EscapedPath(p) == IF p = Empty THEN Empty ELSE EscapeByte(Head(p)) \o EscapedPath(Tail(p))

\* (*URL).String
URLString(u) ==
    (IF u.scheme # Empty THEN u.scheme \o <<":">> ELSE Empty)
    \o (IF u.scheme # Empty \/ u.host # Empty THEN <<"/", "/">> \o u.host ELSE Empty)
    \o (IF u.path # Empty /\ Head(u.path) # "/" /\ u.host # Empty THEN <<"/">> ELSE Empty)
    \o EscapedPath(u.path)
    \o (IF u.forceQuery \/ u.rawQuery # Empty THEN <<"?">> \o u.rawQuery ELSE Empty)
    \o (IF u.fragment # Empty THEN <<"#">> \o EscapedPath(u.fragment) ELSE Empty)

----------------------------------------------------------------------------
(* md5Obscurer *)

\* what an Obscure that renders the digest the hash holds, and nothing of
\* the path, would return
ObscureDigestOnly(url) == [url EXCEPT !.path = <<"/">> \o EmptyDigestHex]

\* md5Obscurer.Obscure: a copy of url whose Path is "/" and the hex of
\* hash.Sum(trimmed path), i.e. the trimmed path's bytes followed by the
\* digest the hash holds
Obscure(url) ==
    [url EXCEPT !.path = <<"/">> \o Hex(TrimLeft(url.path)) \o EmptyDigestHex]

----------------------------------------------------------------------------
(* memoryStore *)

\* a nil *url.URL
NilURL == [nil |-> TRUE]

\* a nil error
Nil == "nil"

EmptyStore == [k \in {} |-> NilURL]

\* sync.Map.Store
MapStore(s, k, v) == [x \in DOMAIN s \cup {k} |-> IF x = k THEN v ELSE s[x]]

\* what a Delete that does nothing would leave
MapDeleteNothing(s, k) == s

\* sync.Map.Delete
MapDelete(s, k) == [x \in DOMAIN s \ {k} |-> s[x]]

\* what a Put that stores nothing would leave
PutDropped(s, obscured, original) == s

\* what a Put that stores unconditionally would leave
PutOverwrite(s, obscured, original) == MapStore(s, obscured.path, original)

\* what a Put that stores its first argument would leave
PutObscured(s, obscured, original) ==
    IF obscured.path \in DOMAIN s THEN s ELSE MapStore(s, obscured.path, obscured)

\* memoryStore.Put: the store after the call (the error is always nil)
Put(s, obscured, original) ==
    IF obscured.path \in DOMAIN s THEN s ELSE MapStore(s, obscured.path, original)

\* memoryStore.Get: a copy of the stored original and whether it was found
Get(s, obscured) ==
    IF obscured.path \in DOMAIN s
    THEN [url |-> s[obscured.path], ok |-> TRUE]
    ELSE [url |-> NilURL, ok |-> FALSE]

\* what a Remove that drops every mapping would leave
RemoveAll(s, obscured) == EmptyStore

\* memoryStore.Remove: the store after the call (the error is always nil)
Remove(s, obscured) == MapDelete(s, obscured.path)

\* what a Clear whose Range stops after the first key would leave
ClearOne(s) ==
    IF DOMAIN s = {} THEN s ELSE MapDelete(s, CHOOSE x \in DOMAIN s : TRUE)

RECURSIVE Clear(_)
\* memoryStore.Clear: Range over the map, deleting every key
Clear(s) ==
    IF DOMAIN s = {} THEN s
    ELSE LET k == CHOOSE x \in DOMAIN s : TRUE IN Clear(MapDelete(s, k))

\* memoryStore.Size: Range over the map, counting
Size(s) == Cardinality(DOMAIN s)

\* what a Load that returns after the first pair would leave
LoadFirst(s, batch) ==
    IF batch = << >> THEN s ELSE Put(s, Head(batch).obscured, Head(batch).original)

RECURSIVE Load(_, _)
\* memoryStore.Load: Put for every pair, in the order the map iteration yields them
Load(s, batch) ==
    IF batch = << >> THEN s
    ELSE Load(Put(s, Head(batch).obscured, Head(batch).original), Tail(batch))

----------------------------------------------------------------------------
(* Bounds and inputs *)

\* requests accepted by the handler in one behaviour
MaxRequests == 2

\* pairs in one Load batch
MaxBatch == 2

PathA == <<"/", "a">>
PathB == <<"/", "b">>
HostH == <<"h">>
QueryX == <<"x">>

\* a relative reference, as a header or a request line carries it
Rel(path) == URL(Empty, Empty, path, Empty, Empty)

\* the stores the embedding application may have pre-loaded before serving
PreloadedStores ==
    { EmptyStore,
      Load(EmptyStore, << [obscured |-> Obscure(Rel(PathA)), original |-> Rel(PathA)] >>),
      Load(EmptyStore, << [obscured |-> Obscure(URL(Empty, HostH, PathA, QueryX, Empty)),
                           original |-> URL(Empty, HostH, PathA, QueryX, Empty)] >>) }

\* the request URLs clients send: a plain path and an obscured path
ClientURLs == { Rel(PathA), Obscure(Rel(PathA)) }

\* an invalid URL text, as "example.com\foo" in the tests
BadURL == <<"a", CTL, "b">>

\* header values the wrapped handler may set; << >> is an absent header
LocationValues == { << >>, <<PathA>>, << <<"/", "a", " ", "b">> >>, <<BadURL>> }
ContentLocationValues == { << >>, <<PathB>>, <<BadURL>> }
LinkValues ==
    { << >>,
      << <<"<", "/", "a", ">">> >>,
      << <<"<", "/", "a", ">", ";", "/", "a">> >>,
      << <<"<">> \o BadURL \o <<">", ";", "r">> >>,
      << PathA >> }

InnerStatuses == {0, 200, 302, 404}
InnerBodies == {"", "hello"}

----------------------------------------------------------------------------
(* responseWriter and http.Error *)

Location == "Location"
ContentLocation == "Content-Location"
Link == "Link"
ContentType == "Content-Type"
NoSniff == "X-Content-Type-Options"

Targets == {Location, ContentLocation, Link}
HeaderKeys == Targets \cup {ContentType, NoSniff}

ErrFailedRemoval == "obscurer: unable to remove URL form store"
ErrLocationHeaderFailure == "obscurer: unable to obscure 'Location' header"
ErrContentLocationHeaderFailure == "obscurer: unable to obscure 'Content-Location' header"
ErrLinkHeaderFailure == "obscurer: unable to obscure 'Link' header"
ErrTransport == "write: broken pipe"

NoHeaders == [k \in HeaderKeys |-> << >>]

\* http.Header.Get: the first value of the key, "" when there is none
HeaderGet(h, k) == IF h[k] = << >> THEN Empty ELSE Head(h[k])

\* http.Header.Set: the key keeps this one value only
HeaderSet(h, k, v) == [h EXCEPT ![k] = <<v>>]

\* a responseWriter as ServeHTTP constructs it.  shared tells that body is a
\* slice of a buffer fmt has taken back into its pool; over is what a later
\* fmt call has written over the beginning of that buffer
NewResponseWriter == [status |-> 0, body |-> "", shared |-> FALSE, over |-> Empty]

\* what a WriteHeader with the first-call-wins rule of net/http would capture
WriteHeaderFirstWins(w, code) == IF w.status = 0 THEN [w EXCEPT !.status = code] ELSE w

\* responseWriter.WriteHeader
WriteHeader(w, code) == [w EXCEPT !.status = code]

\* responseWriter.Write: the slice itself is retained, not a copy of it
Write(w, body, pooled) == [w EXCEPT !.body = body, !.shared = pooled, !.over = Empty]

\* http.Error on the responseWriter: WriteHeader(code), then fmt.Fprintln,
\* whose buffer returns to fmt's pool as soon as Write has returned
HttpError(w, msg, code) == Write(WriteHeader(w, code), msg \o "\n", TRUE)

\* the headers http.Error sets
HttpErrorHeaders(h) ==
    [h EXCEPT ![ContentType] = << <<"text/plain; charset=utf-8">> >>,
              ![NoSniff] = << <<"nosniff">> >>]

\* a later fmt.Sprintf that got the pooled buffer back writes its output
\* over the bytes body still points at
Overwrite(w, text) == IF w.shared /\ w.body # "" THEN [w EXCEPT !.over = text] ELSE w

----------------------------------------------------------------------------
(* handler *)

\* defaultParseHeader: the header value as it is
defaultParseHeader(header) == header

\* parseLinkHeader: group 1 of ^<(.+)>.* ; the group is greedy, so it runs
\* to the last '>' of the value.  "" when the value does not match
parseLinkHeader(header) ==
    LET closers == { j \in 3..Len(header) : header[j] = ">" }
    IN  IF header # Empty /\ Head(header) = "<" /\ closers # {}
        THEN SubSeq(header, 2, (CHOOSE j \in closers : \A i \in closers : i <= j) - 1)
        ELSE Empty

NoInner == [count |-> 0, url |-> NilURL, status |-> 0, body |-> "", hdr |-> NoHeaders]

Call(name, target, ok) == [call |-> name, target |-> target, ok |-> ok]

\* whether a Put or Remove on the handler's Store returns an error: never
\* with memoryStore, possibly with a backend that can fail
StoreErrs == IF faulty THEN BOOLEAN ELSE {FALSE}

\* what a handler that leaves r.URL alone would delegate with
DeobscureNever(found, u) == u

\* what a handler that takes the URL Get returned, found or not, would
\* delegate with
DeobscureUnchecked(found, u) == found.url

\* "assume incoming request is obscured": r.URL becomes the mapped original
\* when the store has one
Deobscure(found, u) == IF found.ok THEN found.url ELSE u

\* ServeHTTP up to the delegation: the request URL is looked up in the
\* store and replaced by the mapped original when there is one
Receive ==
    /\ pc \in {"idle", "done"}
    /\ served < MaxRequests
    /\ \E u \in ClientURLs :
        LET found == Get(store, u) IN
        /\ clientURL' = u
        /\ rURL' = Deobscure(found, u)
        /\ calls' = << Call("Get", "", found.ok) >>
    /\ served' = served + 1
    /\ arrival' = store
    /\ rw' = NewResponseWriter
    /\ headers' = NoHeaders
    /\ transport' = << >>
    /\ inner' = NoInner
    /\ pc' = "delegate"
    /\ UNCHANGED <<store, appVars, fn, hash, faulty>>

\* h.handler.ServeHTTP(rw, r): the wrapped handler sets headers, and may
\* call WriteHeader and Write on the responseWriter it was given
Delegate ==
    /\ pc = "delegate"
    /\ \E st \in InnerStatuses, b \in InnerBodies,
          loc \in LocationValues, cl \in ContentLocationValues, ln \in LinkValues :
        LET hdr == [NoHeaders EXCEPT ![Location] = loc, ![ContentLocation] = cl, ![Link] = ln]
            w1  == IF st = 0 THEN rw ELSE WriteHeader(rw, st)
            w2  == IF b = "" THEN w1 ELSE Write(w1, b, FALSE)
        IN
        /\ inner' = [count |-> inner.count + 1, url |-> rURL, status |-> st,
                     body |-> b, hdr |-> hdr]
        /\ headers' = hdr
        /\ rw' = w2
    /\ calls' = Append(calls, Call("ServeHTTP", "", TRUE))
    /\ pc' = "remove"
    /\ UNCHANGED <<store, appVars, fn, hash, clientURL, rURL, transport, served, arrival, faulty>>

\* "remove entries for resources that don't exist": on a captured 404 the
\* store is asked to remove r.URL; ServeHTTP goes on after a failure
RemoveStale ==
    /\ pc = "remove"
    /\ IF rw.status = 404
       THEN \E err \in StoreErrs :
            /\ store' = IF err THEN store ELSE Remove(store, rURL)
            /\ rw' = IF err THEN HttpError(rw, ErrFailedRemoval, 500) ELSE rw
            /\ headers' = IF err THEN HttpErrorHeaders(headers) ELSE headers
            /\ calls' = calls \o << Call("Remove", "Remove", ~ err) >>
                               \o (IF err THEN << Call("Error", "Remove", FALSE) >> ELSE << >>)
       ELSE UNCHANGED <<store, rw, headers, calls>>
    /\ pc' = "location"
    /\ UNCHANGED <<appVars, fn, hash, clientURL, rURL, inner, transport, served, arrival, faulty>>

\* what an obscureHeader without the check for an empty header would do
ObscureHeaderEager(key, failure, next) ==
    LET header    == HeaderGet(headers, key)
        url       == Parse(IF key = Link THEN parseLinkHeader(header) ELSE defaultParseHeader(header))
        rewritten == ReplaceAll(header, URLString(url), URLString(Obscure(url)))
    IN
    /\ store' = Put(store, Obscure(url), url)
    /\ headers' = HeaderSet(headers, key, rewritten)
    /\ calls' = calls \o << Call("Parse", key, TRUE), Call("Obscure", key, TRUE),
                             Call("Set", key, TRUE), Call("Put", key, TRUE) >>
    /\ pc' = next
    /\ UNCHANGED <<appVars, fn, hash, clientURL, rURL, inner, transport, served, arrival, faulty, rw>>

\* handler.obscureHeader followed by ServeHTTP's reaction to its error
ObscureHeader(key, failure, next) ==
    LET header       == HeaderGet(headers, key)
        parsedHeader == IF key = Link THEN parseLinkHeader(header) ELSE defaultParseHeader(header)
        url          == Parse(parsedHeader)
        obscured     == Obscure(url)
        rewritten    == ReplaceAll(header, URLString(url), URLString(obscured))
    IN
    /\ IF header = Empty
       THEN UNCHANGED <<store, rw, headers, calls>>
       ELSE IF ~ ParseOK(parsedHeader)
       THEN /\ rw' = HttpError(rw, failure, 500)
            /\ headers' = HttpErrorHeaders(headers)
            /\ calls' = calls \o << Call("Parse", key, FALSE), Call("Error", key, FALSE) >>
            /\ UNCHANGED store
       ELSE \E err \in StoreErrs, reused \in BOOLEAN :
            LET w1 == IF reused THEN Overwrite(rw, Tail(obscured.path)) ELSE rw IN
            /\ store' = IF err THEN store ELSE Put(store, obscured, url)
            /\ rw' = IF err THEN HttpError(w1, failure, 500) ELSE w1
            /\ headers' = IF err THEN HttpErrorHeaders(HeaderSet(headers, key, rewritten))
                                  ELSE HeaderSet(headers, key, rewritten)
            /\ calls' = calls \o << Call("Parse", key, TRUE), Call("Obscure", key, TRUE),
                                     Call("Set", key, TRUE), Call("Put", key, ~ err) >>
                               \o (IF err THEN << Call("Error", key, FALSE) >> ELSE << >>)
    /\ pc' = next
    /\ UNCHANGED <<appVars, fn, hash, clientURL, rURL, inner, transport, served, arrival, faulty>>

ObscureLocation ==
    pc = "location" /\ ObscureHeader(Location, ErrLocationHeaderFailure, "contentLocation")

ObscureContentLocation ==
    pc = "contentLocation" /\ ObscureHeader(ContentLocation, ErrContentLocationHeaderFailure, "link")

ObscureLink ==
    pc = "link" /\ ObscureHeader(Link, ErrLinkHeaderFailure, "flush")

\* what the underlying http.ResponseWriter would receive if the error of Do
\* were reported on it rather than on the responseWriter
DoThenErrorOnTransport(w, hdr, werr) ==
    (IF w.status # 0
     THEN << [op |-> "WriteHeader", code |-> w.status, body |-> "", over |-> Empty, hdr |-> hdr] >>
     ELSE << >>)
    \o (IF w.body # ""
        THEN << [op |-> "Write", code |-> 0, body |-> w.body, over |-> w.over, hdr |-> hdr] >>
        ELSE << >>)
    \o (IF werr
        THEN << [op |-> "WriteHeader", code |-> 500, body |-> "", over |-> Empty, hdr |-> hdr],
                [op |-> "Write", code |-> 0, body |-> ErrTransport \o "\n", over |-> Empty, hdr |-> hdr] >>
        ELSE << >>)

\* what the underlying http.ResponseWriter would receive from a Do that
\* writes the status whether or not one was captured
DoUnconditional(w, hdr, werr) ==
    << [op |-> "WriteHeader", code |-> w.status, body |-> "", over |-> Empty, hdr |-> hdr] >>
    \o (IF w.body # ""
        THEN << [op |-> "Write", code |-> 0, body |-> w.body, over |-> w.over, hdr |-> hdr] >>
        ELSE << >>)

\* responseWriter.Do: the calls the underlying http.ResponseWriter receives:
\* WriteHeader with the captured status if one was captured, then Write with
\* the captured body if it is not empty
Do(w, hdr, werr) ==
    (IF w.status # 0
     THEN << [op |-> "WriteHeader", code |-> w.status, body |-> "", over |-> Empty, hdr |-> hdr] >>
     ELSE << >>)
    \o (IF w.body # ""
        THEN << [op |-> "Write", code |-> 0, body |-> w.body, over |-> w.over, hdr |-> hdr] >>
        ELSE << >>)

\* what a ServeHTTP that returns after an http.Error without flushing
\* would do at its end
FlushUnlessFailed ==
    /\ pc = "flush"
    /\ \A i \in 1..Len(calls) : calls[i].call # "Error"
    /\ transport' = transport \o Do(rw, headers, FALSE)
    /\ calls' = Append(calls, Call("Do", "Do", TRUE))
    /\ pc' = "done"
    /\ UNCHANGED <<store, appVars, fn, hash, clientURL, rURL, inner, served, arrival, faulty, rw, headers>>

\* the deferred function of ServeHTTP: rw.Do(), and when the Write of the
\* underlying http.ResponseWriter returned an error, http.Error on the
\* responseWriter, which nothing flushes any more
Flush ==
    /\ pc = "flush"
    /\ \E werr \in (IF rw.body # "" THEN BOOLEAN ELSE {FALSE}) :
        /\ transport' = transport \o Do(rw, headers, werr)
        /\ rw' = IF werr THEN HttpError(rw, ErrTransport, 500) ELSE rw
        /\ headers' = IF werr THEN HttpErrorHeaders(headers) ELSE headers
        /\ calls' = calls \o << Call("Do", "Do", ~ werr) >>
                           \o (IF werr THEN << Call("Error", "Do", FALSE) >> ELSE << >>)
    /\ pc' = "done"
    /\ UNCHANGED <<store, appVars, fn, hash, clientURL, rURL, inner, served, arrival, faulty>>

NoCall == [op |-> "none", obscured |-> NilURL, original |-> NilURL, batch |-> << >>,
           url |-> NilURL, ok |-> FALSE, err |-> Nil, size |-> 0]

NoGoroutines == << >>

\* md5Obscurer.hash before the first call of Obscure: a nil hash.Hash
NoHash == "nil"

\* no pure function has been called yet
NoFn == [op |-> "none"]

Init ==
    /\ store \in PreloadedStores
    /\ faulty \in BOOLEAN
    /\ last = NoCall
    /\ pc = "idle"
    /\ clientURL = NilURL
    /\ rURL = NilURL
    /\ inner = NoInner
    /\ rw = NewResponseWriter
    /\ headers = NoHeaders
    /\ transport = << >>
    /\ calls = << >>
    /\ served = 0
    /\ arrival = EmptyStore
    /\ gor = NoGoroutines
    /\ published = EmptyStore
    /\ fn = NoFn
    /\ hash = NoHash

Next ==
    \/ Receive
    \/ Delegate
    \/ RemoveStale
    \/ ObscureLocation
    \/ ObscureContentLocation
    \/ ObscureLink
    \/ Flush

Spec == Init /\ [][Next]_vars

\* h.handler.ServeHTTP(rw, r) of a wrapped handler that builds its headers
\* with Header().Add: a target may have an empty value or several values
DelegateAdd ==
    /\ pc = "delegate"
    /\ \E st \in {200, 404},
          loc \in { <<Empty>>, <<PathA, PathB>>, <<BadURL>> },
          cl \in { << >>, <<BadURL>> },
          ln \in { << >>, <<Empty>> } :
        LET hdr == [NoHeaders EXCEPT ![Location] = loc, ![ContentLocation] = cl, ![Link] = ln]
        IN
        /\ inner' = [count |-> inner.count + 1, url |-> rURL, status |-> st,
                     body |-> "", hdr |-> hdr]
        /\ headers' = hdr
        /\ rw' = WriteHeader(rw, st)
    /\ calls' = Append(calls, Call("ServeHTTP", "", TRUE))
    /\ pc' = "remove"
    /\ UNCHANGED <<store, appVars, fn, hash, clientURL, rURL, transport, served, arrival, faulty>>

\* the handler about to receive the last request of a run
InitLive ==
    /\ store = EmptyStore
    /\ faulty \in BOOLEAN
    /\ last = NoCall
    /\ pc = "idle"
    /\ clientURL = NilURL
    /\ rURL = NilURL
    /\ inner = NoInner
    /\ rw = NewResponseWriter
    /\ headers = NoHeaders
    /\ transport = << >>
    /\ calls = << >>
    /\ served = MaxRequests - 1
    /\ arrival = EmptyStore
    /\ gor = NoGoroutines
    /\ published = EmptyStore
    /\ fn = NoFn
    /\ hash = NoHash

NextLive ==
    \/ Receive
    \/ DelegateAdd
    \/ RemoveStale
    \/ ObscureLocation
    \/ ObscureContentLocation
    \/ ObscureLink
    \/ Flush

\* once the wrapped handler has returned, the steps of ServeHTTP are taken
\* one after the other: they are the straight-line code of one goroutine
\* and its deferred function
SpecLive ==
    /\ InitLive
    /\ [][NextLive]_vars
    /\ WF_vars(RemoveStale \/ ObscureLocation \/ ObscureContentLocation \/ ObscureLink \/ Flush)

\* a store pre-loaded with a mapping whose original is itself an obscured
\* path of the store: what an application in front of a wrapped handler
\* that already links to obscured URLs loads
ChainedStore ==
    Load(EmptyStore, << [obscured |-> Obscure(Rel(PathA)), original |-> Rel(Obscure(Rel(PathB)).path)],
                        [obscured |-> Obscure(Rel(PathB)), original |-> Rel(PathB)] >>)

InitChained ==
    /\ store = ChainedStore
    /\ faulty \in BOOLEAN
    /\ last = NoCall
    /\ pc = "idle"
    /\ clientURL = NilURL
    /\ rURL = NilURL
    /\ inner = NoInner
    /\ rw = NewResponseWriter
    /\ headers = NoHeaders
    /\ transport = << >>
    /\ calls = << >>
    /\ served = 0
    /\ arrival = EmptyStore
    /\ gor = NoGoroutines
    /\ published = EmptyStore
    /\ fn = NoFn
    /\ hash = NoHash

SpecChained == InitChained /\ [][Next]_vars

----------------------------------------------------------------------------
(* The Store interface called by the embedding application, one call at a time *)

StorePaths == {PathA, <<"/", "/", "a">>, PathB}

\* the URLs the application hands to the store: relative references, and
\* absolute ones with a host and a query
StoreURLs ==
    { Rel(p) : p \in StorePaths } \cup { URL(Empty, HostH, p, QueryX, Empty) : p \in StorePaths }

ObscuredURLs == { Obscure(u) : u \in StoreURLs }

\* the URLs of the pairs Load is called with
BatchURLs == { Rel(PathA), Rel(PathB), URL(Empty, HostH, PathA, QueryX, Empty) }

\* the batches Load is called with, in the order the map iteration yields the pairs
Batches ==
    UNION { [1..n -> { [obscured |-> Obscure(u), original |-> u] : u \in BatchURLs }] : n \in 0..MaxBatch }

AppPut ==
    /\ \E o \in ObscuredURLs, u \in StoreURLs :
        /\ store' = Put(store, o, u)
        /\ last' = [NoCall EXCEPT !.op = "Put", !.obscured = o, !.original = u, !.err = Nil]
    /\ UNCHANGED <<reqVars, fn, hash, gor, published>>

AppGet ==
    /\ \E o \in ObscuredURLs :
        LET found == Get(store, o) IN
        last' = [NoCall EXCEPT !.op = "Get", !.obscured = o, !.url = found.url, !.ok = found.ok]
    /\ UNCHANGED <<store, reqVars, fn, hash, gor, published>>

AppRemove ==
    /\ \E o \in ObscuredURLs :
        /\ store' = Remove(store, o)
        /\ last' = [NoCall EXCEPT !.op = "Remove", !.obscured = o, !.err = Nil]
    /\ UNCHANGED <<reqVars, fn, hash, gor, published>>

AppClear ==
    /\ store' = Clear(store)
    /\ last' = [NoCall EXCEPT !.op = "Clear", !.err = Nil]
    /\ UNCHANGED <<reqVars, fn, hash, gor, published>>

AppSize ==
    /\ last' = [NoCall EXCEPT !.op = "Size", !.size = Size(store)]
    /\ UNCHANGED <<store, reqVars, fn, hash, gor, published>>

AppLoad ==
    /\ \E batch \in Batches :
        /\ store' = Load(store, batch)
        /\ last' = [NoCall EXCEPT !.op = "Load", !.batch = batch, !.err = Nil]
    /\ UNCHANGED <<reqVars, fn, hash, gor, published>>

InitStore ==
    /\ store = EmptyStore
    /\ faulty = FALSE
    /\ last = NoCall
    /\ pc = "idle"
    /\ clientURL = NilURL
    /\ rURL = NilURL
    /\ inner = NoInner
    /\ rw = NewResponseWriter
    /\ headers = NoHeaders
    /\ transport = << >>
    /\ calls = << >>
    /\ served = 0
    /\ arrival = EmptyStore
    /\ gor = NoGoroutines
    /\ published = EmptyStore
    /\ fn = NoFn
    /\ hash = NoHash

NextStore ==
    \/ AppPut
    \/ AppGet
    \/ AppRemove
    \/ AppClear
    \/ AppSize
    \/ AppLoad

SpecStore == InitStore /\ [][NextStore]_vars

----------------------------------------------------------------------------
(* memoryStore called by several goroutines at once.  Each sync.Map call is *)
(* atomic; a method that makes several of them is several steps.            *)

\* goroutines calling the store
NumGoroutines == 2

ConcObscured == { Obscure(Rel(PathA)), Obscure(Rel(PathB)) }
ConcOriginals == { Rel(PathA), URL(Empty, HostH, PathA, QueryX, Empty) }

IdleGoroutine == [pc |-> "idle", obscured |-> NilURL, original |-> NilURL, snapshot |-> {}, visited |-> {}]

\* memoryStore.Put, first half: s.store.Load(obscured.Path); the method
\* returns when the key is there
GoPutLoad(g) ==
    /\ gor[g].pc = "idle"
    /\ \E o \in ConcObscured, u \in ConcOriginals :
        gor' = IF o.path \in DOMAIN store
               THEN gor
               ELSE [gor EXCEPT ![g] = [IdleGoroutine EXCEPT !.pc = "put", !.obscured = o, !.original = u]]
    /\ UNCHANGED <<store, last, published, reqVars, fn, hash>>

\* memoryStore.Put, second half: s.store.Store(obscured.Path, *original)
GoPutStore(g) ==
    /\ gor[g].pc = "put"
    /\ store' = MapStore(store, gor[g].obscured.path, gor[g].original)
    /\ gor' = [gor EXCEPT ![g] = IdleGoroutine]
    /\ UNCHANGED <<last, published, reqVars, fn, hash>>

\* memoryStore.Get
GoGet(g) ==
    /\ gor[g].pc = "idle"
    /\ \E o \in ConcObscured :
        LET found == Get(store, o) IN
        published' = IF found.ok THEN MapStore(published, o.path, found.url) ELSE published
    /\ UNCHANGED <<store, last, gor, reqVars, fn, hash>>

\* memoryStore.Remove
GoRemove(g) ==
    /\ gor[g].pc = "idle"
    /\ \E o \in ConcObscured :
        /\ store' = Remove(store, o)
        /\ published' = MapDelete(published, o.path)
    /\ UNCHANGED <<last, gor, reqVars, fn, hash>>

\* memoryStore.Clear: the Range begins
GoClearBegin(g) ==
    /\ gor[g].pc = "idle"
    /\ gor' = [gor EXCEPT ![g] = [IdleGoroutine EXCEPT !.pc = "clear", !.snapshot = DOMAIN store]]
    /\ UNCHANGED <<store, last, published, reqVars, fn, hash>>

\* memoryStore.Clear: the Range visits a key not visited yet and deletes it
GoClearDelete(g) ==
    /\ gor[g].pc = "clear"
    /\ \E k \in DOMAIN store \ gor[g].visited :
        /\ store' = MapDelete(store, k)
        /\ published' = MapDelete(published, k)
        /\ gor' = [gor EXCEPT ![g].visited = @ \cup {k}]
    /\ UNCHANGED <<last, reqVars, fn, hash>>

\* memoryStore.Clear: the Range ends once it has visited the keys that
\* were there when it began and still are
GoClearEnd(g) ==
    /\ gor[g].pc = "clear"
    /\ (gor[g].snapshot \cap DOMAIN store) \subseteq gor[g].visited
    /\ gor' = [gor EXCEPT ![g] = IdleGoroutine]
    /\ UNCHANGED <<store, last, published, reqVars, fn, hash>>

InitConc ==
    /\ store = EmptyStore
    /\ faulty = FALSE
    /\ last = NoCall
    /\ pc = "idle"
    /\ clientURL = NilURL
    /\ rURL = NilURL
    /\ inner = NoInner
    /\ rw = NewResponseWriter
    /\ headers = NoHeaders
    /\ transport = << >>
    /\ calls = << >>
    /\ served = 0
    /\ arrival = EmptyStore
    /\ gor = [g \in 1..NumGoroutines |-> IdleGoroutine]
    /\ published = EmptyStore
    /\ fn = NoFn
    /\ hash = NoHash

NextConc ==
    \E g \in 1..NumGoroutines :
        \/ GoPutLoad(g)
        \/ GoPutStore(g)
        \/ GoGet(g)
        \/ GoRemove(g)
        \/ GoClearBegin(g)
        \/ GoClearDelete(g)
        \/ GoClearEnd(g)

SpecConc == InitConc /\ [][NextConc]_vars

----------------------------------------------------------------------------
(* Request A's Put(K, U) and request B's Remove(K), run once, concurrently *)

RaceStores == UNION { [D -> ConcOriginals] : D \in SUBSET { o.path : o \in ConcObscured } }

\* memoryStore.Put of request A, first half: s.store.Load(obscured.Path);
\* the method returns when the key is there
RacePutLoad ==
    /\ gor.A.pc = "start"
    /\ gor' = [gor EXCEPT !.A.pc = IF Get(store, gor.A.obscured).ok THEN "done" ELSE "put"]
    /\ UNCHANGED <<store, last, published, reqVars, fn, hash>>

\* memoryStore.Put of request A, second half: s.store.Store(obscured.Path, *original)
RacePutStore ==
    /\ gor.A.pc = "put"
    /\ store' = MapStore(store, gor.A.obscured.path, gor.A.original)
    /\ gor' = [gor EXCEPT !.A.pc = "done"]
    /\ UNCHANGED <<last, published, reqVars, fn, hash>>

\* memoryStore.Remove of request B
RaceRemove ==
    /\ gor.B.pc = "start"
    /\ store' = Remove(store, gor.B.obscured)
    /\ gor' = [gor EXCEPT !.B.pc = "done"]
    /\ UNCHANGED <<last, published, reqVars, fn, hash>>

InitRace ==
    /\ store \in RaceStores
    /\ arrival = store
    /\ \E K \in ConcObscured, U \in ConcOriginals :
        gor = [A |-> [pc |-> "start", obscured |-> K, original |-> U],
               B |-> [pc |-> "start", obscured |-> K, original |-> NilURL]]
    /\ faulty = FALSE
    /\ last = NoCall
    /\ pc = "idle"
    /\ clientURL = NilURL
    /\ rURL = NilURL
    /\ inner = NoInner
    /\ rw = NewResponseWriter
    /\ headers = NoHeaders
    /\ transport = << >>
    /\ calls = << >>
    /\ served = 0
    /\ published = EmptyStore
    /\ fn = NoFn
    /\ hash = NoHash

NextRace ==
    \/ RacePutLoad
    \/ RacePutStore
    \/ RaceRemove

SpecRace == InitRace /\ [][NextRace]_vars

----------------------------------------------------------------------------
(* The URLs a caller of the store holds: the one it passed to Put and the
   one Get returned to it.  A pointer is the URL seen through it, the
   obscured path it was put under or got from, and the key of the store
   entry it shares memory with, Empty when it shares none *)

\* what a Put that stored the caller's pointer would leave the caller with
ArgRetained(s, obscured, original) ==
    [url |-> original, of |-> obscured.path,
     key |-> IF obscured.path \in DOMAIN s THEN Empty ELSE obscured.path]

\* the caller's pointer after Put: s.store.Store(obscured.Path, *original)
\* stores a copy of the URL, so the pointer shares memory with no entry
ArgAfterPut(s, obscured, original) ==
    [url |-> original, of |-> obscured.path, key |-> Empty]

\* the pointer Get returns: originalURL := original.(url.URL); &originalURL
\* is the address of a copy
Returned(found, obscured) ==
    [url |-> found.url, of |-> obscured.path, key |-> Empty]

CallerPut ==
    /\ \E u \in BatchURLs :
        /\ store' = Put(store, Obscure(u), u)
        /\ gor' = [gor EXCEPT !.arg = ArgAfterPut(store, Obscure(u), u)]
        /\ last' = [NoCall EXCEPT !.op = "Put", !.obscured = Obscure(u), !.original = u]
    /\ UNCHANGED <<published, reqVars, fn, hash>>

CallerGet ==
    /\ \E o \in { Obscure(u) : u \in BatchURLs } :
        LET found == Get(store, o) IN
        /\ gor' = [gor EXCEPT !.got = IF found.ok THEN Returned(found, o) ELSE gor.got]
        /\ last' = [NoCall EXCEPT !.op = "Get", !.obscured = o, !.url = found.url, !.ok = found.ok]
    /\ UNCHANGED <<store, published, reqVars, fn, hash>>

\* the caller assigns through one of its pointers, as the wrapped handler
\* may through r.URL: what shares the memory changes with it
CallerMutate ==
    /\ \E p \in {"arg", "got"}, u \in BatchURLs :
        /\ gor[p].of # Empty
        /\ gor[p].url # u
        /\ store' = [k \in DOMAIN store |-> IF k = gor[p].key THEN u ELSE store[k]]
        /\ gor' = [q \in {"arg", "got"} |->
                     IF q = p \/ (gor[p].key # Empty /\ gor[q].key = gor[p].key)
                     THEN [gor[q] EXCEPT !.url = u]
                     ELSE gor[q]]
        /\ last' = [NoCall EXCEPT !.op = "Mutate", !.url = u]
    /\ UNCHANGED <<published, reqVars, fn, hash>>

InitAlias ==
    /\ store = EmptyStore
    /\ gor = [arg |-> [url |-> NilURL, of |-> Empty, key |-> Empty],
              got |-> [url |-> NilURL, of |-> Empty, key |-> Empty]]
    /\ faulty = FALSE
    /\ last = NoCall
    /\ pc = "idle"
    /\ clientURL = NilURL
    /\ rURL = NilURL
    /\ inner = NoInner
    /\ rw = NewResponseWriter
    /\ headers = NoHeaders
    /\ transport = << >>
    /\ calls = << >>
    /\ served = 0
    /\ arrival = EmptyStore
    /\ published = EmptyStore
    /\ fn = NoFn
    /\ hash = NoHash

NextAlias ==
    \/ CallerPut
    \/ CallerGet
    \/ CallerMutate

SpecAlias == InitAlias /\ [][NextAlias]_vars

----------------------------------------------------------------------------
(* The pure functions of the package, called on their own: Obscure as the   *)
(* application or the handler calls it, parseLinkHeader as obscureHeader    *)
(* calls it                                                                 *)

\* characters of a URL path handed to Obscure
MaxPathLen == 4

\* characters of a Link header value handed to parseLinkHeader
MaxLinkLen == 5

PathChars == {"/", "a"}

FnPaths == UNION { [1..n -> PathChars] : n \in 0..MaxPathLen }

\* the URLs Obscure is called with: relative references, and URLs with a
\* host, a query and a fragment
FnURLs == { Rel(p) : p \in FnPaths } \cup { URL(Empty, HostH, p, QueryX, <<"a">>) : p \in FnPaths }

LinkChars == {"<", ">", "a"}

FnLinks == UNION { [1..n -> LinkChars] : n \in 0..MaxLinkLen }

\* a call of md5Obscurer.Obscure; before is the call of Obscure made before
\* this one (this one itself when there was none)
CallObscure ==
    /\ \E u \in FnURLs :
        LET this == [in |-> u, out |-> Obscure(u)] IN
        fn' = [op |-> "Obscure", in |-> this.in, out |-> this.out,
               before |-> IF fn.op = "Obscure" THEN [in |-> fn.in, out |-> fn.out] ELSE this]
    /\ UNCHANGED <<store, last, gor, published, reqVars, hash>>

\* a call of parseLinkHeader
CallParseLinkHeader ==
    /\ \E header \in FnLinks :
        fn' = [op |-> "parseLinkHeader", in |-> header, out |-> parseLinkHeader(header)]
    /\ UNCHANGED <<store, last, gor, published, reqVars, hash>>

InitFn ==
    /\ store = EmptyStore
    /\ faulty = FALSE
    /\ last = NoCall
    /\ pc = "idle"
    /\ clientURL = NilURL
    /\ rURL = NilURL
    /\ inner = NoInner
    /\ rw = NewResponseWriter
    /\ headers = NoHeaders
    /\ transport = << >>
    /\ calls = << >>
    /\ served = 0
    /\ arrival = EmptyStore
    /\ gor = NoGoroutines
    /\ published = EmptyStore
    /\ fn = NoFn
    /\ hash = NoHash

NextObscure == CallObscure

SpecObscure == InitFn /\ [][NextObscure]_vars

NextParse == CallParseLinkHeader

SpecParse == InitFn /\ [][NextParse]_vars

----------------------------------------------------------------------------
(* Obscure of the Default obscurer called by several goroutines at once.    *)
(* Obscure reads o.hash and, finding it nil, assigns md5.New() to it with   *)
(* no synchronisation.  A hash.Hash is an interface value of two words; a   *)
(* goroutine reading it while another one assigns it may find a pair of     *)
(* words that no assignment wrote.                                          *)

\* o.hash holds one word of the value being assigned and one of the nil before
TornHash == "torn"

\* o.hash holds a hash made by md5.New(), to which nothing was written
Md5Hash == "md5"

\* the URLs the goroutines call Obscure with
HashURLs == { Rel(PathA), Rel(PathB), URL(Empty, HostH, PathB, QueryX, Empty) }

\* Obscure begins: `o.hash == empty` is evaluated.  A nil hash leads to the
\* assignment, a hash to Sum; of a torn value either word may be the nil
\* one, so that the comparison finds it nil, or finds it a hash, whose Sum
\* then dereferences a nil pointer
GoObscureBegin(g) ==
    /\ gor[g].pc \in {"idle", "returned"}
    /\ \E u \in HashURLs, next \in (CASE hash = NoHash  -> {"assign"}
                                       [] hash = Md5Hash -> {"sum"}
                                       [] OTHER          -> {"assign", "panicked"}) :
        gor' = [gor EXCEPT ![g] = [IdleGoroutine EXCEPT !.pc = next, !.original = u]]
    /\ UNCHANGED <<store, last, published, fn, hash, reqVars>>

\* o.hash = md5.New(), first word
GoObscureAssign(g) ==
    /\ gor[g].pc = "assign"
    /\ hash' = IF hash = NoHash THEN TornHash ELSE hash
    /\ gor' = [gor EXCEPT ![g].pc = "assigned"]
    /\ UNCHANGED <<store, last, published, fn, reqVars>>

\* o.hash = md5.New(), second word
GoObscureAssigned(g) ==
    /\ gor[g].pc = "assigned"
    /\ hash' = Md5Hash
    /\ gor' = [gor EXCEPT ![g].pc = "sum"]
    /\ UNCHANGED <<store, last, published, fn, reqVars>>

\* o.hash.Sum(...), fmt.Sprintf and the copy of the URL: Obscure returns
GoObscureSum(g) ==
    /\ gor[g].pc = "sum"
    /\ gor' = [gor EXCEPT ![g].pc = "returned", ![g].obscured = Obscure(gor[g].original)]
    /\ UNCHANGED <<store, last, published, fn, hash, reqVars>>

InitHash ==
    /\ store = EmptyStore
    /\ faulty = FALSE
    /\ last = NoCall
    /\ pc = "idle"
    /\ clientURL = NilURL
    /\ rURL = NilURL
    /\ inner = NoInner
    /\ rw = NewResponseWriter
    /\ headers = NoHeaders
    /\ transport = << >>
    /\ calls = << >>
    /\ served = 0
    /\ arrival = EmptyStore
    /\ gor = [g \in 1..NumGoroutines |-> IdleGoroutine]
    /\ published = EmptyStore
    /\ fn = NoFn
    /\ hash = NoHash

NextHash ==
    \E g \in 1..NumGoroutines :
        \/ GoObscureBegin(g)
        \/ GoObscureAssign(g)
        \/ GoObscureAssigned(g)
        \/ GoObscureSum(g)

SpecHash == InitHash /\ [][NextHash]_vars

----------------------------------------------------------------------------
(* The middleware of NewMiddleware behind the handler it was released with: *)
(* NewHandler(o, s, NewMiddleware(o, s, next)).  That handler deobscures    *)
(* the request URL and evicts on 404 only; its responseWriter passes every  *)
(* WriteHeader on at once (autoFlush).  The responseWriter of the           *)
(* middleware captures the status and passes it on when Flush is called;    *)
(* Header and Write are those of the http.ResponseWriter it wraps.          *)

\* requests accepted by the handler in front of the middleware in one behaviour
MaxMwRequests == 1

Handler == "handler"
Middleware == "middleware"

\* a call, and whether the handler or the middleware made it
By(who, c) == [call |-> c.call, target |-> c.target, ok |-> c.ok, by |-> who]

\* a call the underlying http.ResponseWriter receives
TransportWriteHeader(code, hdr) ==
    [op |-> "WriteHeader", code |-> code, body |-> "", over |-> Empty, hdr |-> hdr]

TransportWrite(body, hdr) ==
    [op |-> "Write", code |-> 0, body |-> body, over |-> Empty, hdr |-> hdr]

\* http.Error on a writer that passes everything on: the two headers are
\* set, then WriteHeader(code) and the Write of fmt.Fprintln reach the
\* underlying http.ResponseWriter
HttpErrorThrough(hdr, msg, code) ==
    << TransportWriteHeader(code, HttpErrorHeaders(hdr)),
       TransportWrite(msg \o "\n", HttpErrorHeaders(hdr)) >>

\* handler.ServeHTTP up to the delegation, and the middleware's
\* construction of its responseWriter
MwReceive ==
    /\ pc \in {"idle", "done"}
    /\ served < MaxMwRequests
    /\ \E u \in ClientURLs :
        LET found == Get(store, u) IN
        /\ clientURL' = u
        /\ rURL' = Deobscure(found, u)
        /\ calls' = << By(Handler, Call("Get", "", found.ok)) >>
    /\ served' = served + 1
    /\ arrival' = store
    /\ rw' = NewResponseWriter
    /\ headers' = NoHeaders
    /\ transport' = << >>
    /\ inner' = NoInner
    /\ pc' = "mwDelegate"
    /\ UNCHANGED <<store, appVars, fn, hash, faulty>>

\* m.next.ServeHTTP(rw, r): the next handler sets headers; its WriteHeader
\* is captured, its Write goes through to the underlying http.ResponseWriter
MwDelegate ==
    /\ pc = "mwDelegate"
    /\ \E st \in InnerStatuses, b \in InnerBodies,
          loc \in LocationValues, cl \in ContentLocationValues, ln \in LinkValues :
        LET hdr == [NoHeaders EXCEPT ![Location] = loc, ![ContentLocation] = cl, ![Link] = ln] IN
        /\ inner' = [count |-> inner.count + 1, url |-> rURL, status |-> st,
                     body |-> b, hdr |-> hdr]
        /\ headers' = hdr
        /\ rw' = IF st = 0 THEN rw ELSE WriteHeader(rw, st)
        /\ transport' = IF b = "" THEN transport ELSE Append(transport, TransportWrite(b, hdr))
    /\ calls' = Append(calls, By(Middleware, Call("ServeHTTP", "", TRUE)))
    /\ pc' = "mwLocation"
    /\ UNCHANGED <<store, appVars, fn, hash, clientURL, rURL, served, arrival, faulty>>

\* middleware.obscureHeader followed by ServeHTTP's reaction to its error:
\* http.Error on the writer the middleware was given
MwObscureHeader(key, failure, next) ==
    LET header       == HeaderGet(headers, key)
        parsedHeader == IF key = Link THEN parseLinkHeader(header) ELSE defaultParseHeader(header)
        url          == Parse(parsedHeader)
        obscured     == Obscure(url)
        rewritten    == HeaderSet(headers, key, ReplaceAll(header, URLString(url), URLString(obscured)))
    IN
    /\ IF header = Empty
       THEN UNCHANGED <<store, headers, transport, calls>>
       ELSE IF ~ ParseOK(parsedHeader)
       THEN /\ headers' = HttpErrorHeaders(headers)
            /\ transport' = transport \o HttpErrorThrough(headers, failure, 500)
            /\ calls' = calls \o << By(Middleware, Call("Parse", key, FALSE)),
                                     By(Middleware, Call("Error", key, FALSE)) >>
            /\ UNCHANGED store
       ELSE \E err \in StoreErrs :
            /\ store' = IF err THEN store ELSE Put(store, obscured, url)
            /\ headers' = IF err THEN HttpErrorHeaders(rewritten) ELSE rewritten
            /\ transport' = IF err THEN transport \o HttpErrorThrough(rewritten, failure, 500)
                                    ELSE transport
            /\ calls' = calls \o << By(Middleware, Call("Parse", key, TRUE)),
                                     By(Middleware, Call("Obscure", key, TRUE)),
                                     By(Middleware, Call("Set", key, TRUE)),
                                     By(Middleware, Call("Put", key, ~ err)) >>
                               \o (IF err THEN << By(Middleware, Call("Error", key, FALSE)) >> ELSE << >>)
    /\ pc' = next
    /\ UNCHANGED <<appVars, fn, hash, clientURL, rURL, inner, rw, served, arrival, faulty>>

MwObscureLocation ==
    pc = "mwLocation" /\ MwObscureHeader(Location, ErrLocationHeaderFailure, "mwContentLocation")

MwObscureContentLocation ==
    pc = "mwContentLocation" /\ MwObscureHeader(ContentLocation, ErrContentLocationHeaderFailure, "mwLink")

MwObscureLink ==
    pc = "mwLink" /\ MwObscureHeader(Link, ErrLinkHeaderFailure, "mwFlush")

\* the deferred rw.Flush(): WriteHeader(rw.status) on the writer the
\* middleware was given, which passes it on.  The underlying
\* http.ResponseWriter panics on the code 0 when nothing was written before;
\* the panic leaves the middleware and the handler
MwFlush ==
    /\ pc = "mwFlush"
    /\ IF rw.status = 0 /\ transport = << >>
       THEN /\ calls' = Append(calls, By(Middleware, Call("Flush", "Flush", FALSE)))
            /\ pc' = "done"
            /\ UNCHANGED transport
       ELSE /\ calls' = Append(calls, By(Middleware, Call("Flush", "Flush", TRUE)))
            /\ transport' = Append(transport, TransportWriteHeader(rw.status, headers))
            /\ pc' = "mwRemove"
    /\ UNCHANGED <<store, appVars, fn, hash, clientURL, rURL, inner, rw, headers, served, arrival, faulty>>

\* the status the handler's responseWriter holds: the code of the latest
\* WriteHeader it was given, which is the one Flush gave it
AutoFlushStatus == transport[Len(transport)].code

\* the handler after the middleware has returned: on a captured 404 the
\* store is asked to remove r.URL; a failure is reported with http.Error
\* on the underlying http.ResponseWriter
MwRemove ==
    /\ pc = "mwRemove"
    /\ IF AutoFlushStatus = 404
       THEN \E err \in StoreErrs :
            /\ store' = IF err THEN store ELSE Remove(store, rURL)
            /\ headers' = IF err THEN HttpErrorHeaders(headers) ELSE headers
            /\ transport' = IF err THEN transport \o HttpErrorThrough(headers, ErrFailedRemoval, 500)
                                    ELSE transport
            /\ calls' = calls \o << By(Handler, Call("Remove", "Remove", ~ err)) >>
                               \o (IF err THEN << By(Handler, Call("Error", "Remove", FALSE)) >> ELSE << >>)
       ELSE UNCHANGED <<store, headers, transport, calls>>
    /\ pc' = "done"
    /\ UNCHANGED <<appVars, fn, hash, clientURL, rURL, inner, rw, served, arrival, faulty>>

NextMw ==
    \/ MwReceive
    \/ MwDelegate
    \/ MwObscureLocation
    \/ MwObscureContentLocation
    \/ MwObscureLink
    \/ MwFlush
    \/ MwRemove

SpecMw == Init /\ [][NextMw]_vars

----------------------------------------------------------------------------
(* The response the client receives, and what a request did *)

TransportCalls(op) == { i \in 1..Len(transport) : transport[i].op = op }

First(S) == CHOOSE i \in S : \A j \in S : i <= j

\* the status line: the code of the first WriteHeader the underlying
\* http.ResponseWriter received, 200 when it received none
ResponseStatus ==
    IF TransportCalls("WriteHeader") # {} THEN transport[First(TransportCalls("WriteHeader"))].code ELSE 200

\* the body: the bytes of the Write the underlying http.ResponseWriter
\* received, as they were at that moment
ResponseBody ==
    IF TransportCalls("Write") # {}
    THEN [text |-> transport[First(TransportCalls("Write"))].body,
          over |-> transport[First(TransportCalls("Write"))].over]
    ELSE [text |-> "", over |-> Empty]

\* the headers: the header map as it was at the first call the underlying
\* http.ResponseWriter received, or when ServeHTTP returned
ResponseHeaders == IF transport # << >> THEN transport[1].hdr ELSE headers

\* an intact body
Body(text) == [text |-> text, over |-> Empty]

\* the http.Error calls of the pipeline: removal and header failures
Failures == { i \in 1..Len(calls) : calls[i].call = "Error" /\ calls[i].target # "Do" }

Called(c) == \E i \in 1..Len(calls) : calls[i] = c

FailureMessage(step) ==
    CASE step = Location        -> ErrLocationHeaderFailure
      [] step = ContentLocation -> ErrContentLocationHeaderFailure
      [] step = Link            -> ErrLinkHeaderFailure
      [] OTHER                  -> ErrFailedRemoval

\* the URL text the header parser of a target takes from a value
Extracted(target, value) ==
    IF target = Link THEN parseLinkHeader(value) ELSE defaultParseHeader(value)

\* a value in which the extracted URL text alone, where it stands, is
\* replaced by the obscured URL
Spliced(target, value) ==
    LET text == Extracted(target, value)
        new  == URLString(Obscure(Parse(text)))
    IN  IF target = Link THEN <<"<">> \o new \o Drop(value, 1 + Len(text)) ELSE new

NoTargetSet == \A t \in Targets : inner.hdr[t] = << >>

----------------------------------------------------------------------------
(* Properties of the handler *)

\* C1: 404 eviction: when a request for an obscured URL that is mapped in
\* the store is answered 404 by the wrapped handler (and no step of the
\* pipeline fails), Get of that obscured URL reports not-found once the
\* request has completed.
C1_EvictedOn404 ==
    (pc = "done" /\ Get(arrival, clientURL).ok /\ inner.status = 404 /\ Failures = {})
    => ~ Get(store, clientURL).ok

\* C2: when more than one step of the post-processing fails in a request,
\* the flushed response is a 500 whose body is the message of the first
\* failing step, and after that first failure no rewrite target is parsed,
\* rewritten or put into the store.
C2_FirstFailureWins ==
    (pc = "done" /\ Cardinality(Failures) >= 2)
    => /\ ResponseStatus = 500
       /\ ResponseBody = Body(FailureMessage(calls[First(Failures)].target) \o "\n")
       /\ \A i \in 1..Len(calls) :
            i > First(Failures) => calls[i].call \notin {"Parse", "Obscure", "Set", "Put"}

\* C5: for each rewrite target the wrapped handler set to a value with a
\* parseable URL U, in a request where no step fails: the response keeps
\* the wrapped handler's status, carries the header with U replaced by
\* Obscure(U), and the store maps the path of Obscure(U) to U.
C5_RewrittenAndStored ==
    (pc = "done" /\ Failures = {})
    => \A t \in Targets :
        LET value == HeaderGet(inner.hdr, t)
            text  == Extracted(t, value)
        IN  (value # Empty /\ text # Empty /\ ParseOK(text))
            => /\ ResponseStatus = (IF inner.status = 0 THEN 200 ELSE inner.status)
               /\ HeaderGet(ResponseHeaders, t) = Spliced(t, value)
               /\ Get(store, Obscure(Parse(text))) = [url |-> Parse(text), ok |-> TRUE]

\* C6: a rewritten header value differs from the value the wrapped handler
\* set by the one extracted URL substring being replaced with the obscured
\* URL; every other character, other occurrences of the same text
\* included, is unchanged.
C6_OnlyExtractedReplaced ==
    \A t \in Targets :
        Called(Call("Set", t, TRUE)) => HeaderGet(headers, t) = Spliced(t, HeaderGet(inner.hdr, t))

\* C7: when the path of the incoming request URL is a key of the store, the
\* wrapped handler is invoked exactly once, with the stored original as
\* request URL; when it answers with a non-404 status and sets no rewrite
\* target, the store after the request is the store before it: the mapping
\* is still there and the size is the same.
C7_Deobscured ==
    /\ (pc \notin {"idle", "delegate"} /\ Get(arrival, clientURL).ok)
       => (inner.count = 1 /\ inner.url = Get(arrival, clientURL).url)
    /\ (pc = "done" /\ Get(arrival, clientURL).ok /\ inner.status # 404 /\ NoTargetSet)
       => (store = arrival /\ Get(store, clientURL).ok /\ Size(store) = Size(arrival))

\* a request for a mapped obscured URL was delegated with another URL than
\* the client sent, answered 200 without rewrite target, and has completed
C7_Witness ==
    /\ pc = "done"
    /\ Get(arrival, clientURL).ok
    /\ inner.count = 1
    /\ inner.url # clientURL
    /\ inner.status = 200
    /\ NoTargetSet

C10_ParseFailureResponse ==
    pc = "done"
    => \A t \in Targets :
        (Called(Call("Parse", t, FALSE)) /\ Cardinality(Failures) = 1)
        => (ResponseStatus = 500 /\ ResponseBody = Body(FailureMessage(t) \o "\n"))

\* the calls of a kind the handler made in this request
CallsOf(name) == { i \in 1..Len(calls) : calls[i].call = name }

\* C11: for each rewrite target T: when T holds a valid URL and store.Put
\* returns an error, the response has status 500, its body is T's failure
\* message and a newline, and that Put is the only one made for T and the
\* last one of the request.
C11_PutFailureResponse ==
    pc = "done"
    => \A t \in Targets :
        Called(Call("Put", t, FALSE))
        => /\ ResponseStatus = 500
           /\ ResponseBody = Body(FailureMessage(t) \o "\n")
           /\ Cardinality({ i \in CallsOf("Put") : calls[i].target = t }) = 1
           /\ \A i \in CallsOf("Put"), j \in CallsOf("Put") :
                calls[i] = Call("Put", t, FALSE) => j <= i

\* C12: when the captured status is 404 and store.Remove returns an error,
\* the request aborts: the response is a 500 whose body is the removal
\* failure message and a newline, whatever rewrite targets the wrapped
\* handler set, and no header is rewritten and no Put is made.
C12_RemovalFailureAborts ==
    (pc = "done" /\ Called(Call("Remove", "Remove", FALSE)))
    => /\ ResponseStatus = 500
       /\ ResponseBody = Body(ErrFailedRemoval \o "\n")
       /\ CallsOf("Set") = {}
       /\ CallsOf("Put") = {}
       /\ \A t \in Targets : headers[t] = inner.hdr[t]

\* C13: when the wrapped handler sets a non-empty Link value that is not of
\* the form <url>..., the request ends with a 500 carrying the Link failure
\* message; the Link header is not rewritten and nothing is put into the
\* store for it.
C13_UnmatchedLinkFails ==
    (pc = "done" /\ HeaderGet(inner.hdr, Link) # Empty
                 /\ parseLinkHeader(HeaderGet(inner.hdr, Link)) = Empty)
    => /\ ResponseStatus = 500
       /\ ResponseBody = Body(ErrLinkHeaderFailure \o "\n")
       /\ headers[Link] = inner.hdr[Link]
       /\ ~ Called(Call("Put", Link, TRUE))

\* the status the wrapped handler's response goes out with when nothing
\* replaces it
InnerStatus == IF inner.status = 0 THEN 200 ELSE inner.status

\* C15: lookup miss: when the path of the incoming request URL is not a key
\* of the store, the wrapped handler is invoked with the request URL
\* unchanged; when it answers with a non-404 status and sets no rewrite
\* target, the response has its status and the store is unchanged (an
\* empty store stays empty).
C15_LookupMiss ==
    /\ (pc \notin {"idle", "delegate"} /\ ~ Get(arrival, clientURL).ok)
       => (inner.count = 1 /\ inner.url = clientURL)
    /\ (pc = "done" /\ ~ Get(arrival, clientURL).ok /\ inner.status # 404 /\ NoTargetSet)
       => /\ ResponseStatus = InnerStatus
          /\ store = arrival
          /\ (Size(arrival) = 0 => Size(store) = 0)

\* a request whose path is no key of the empty store was delegated,
\* answered 302 without rewrite target, and has completed
C15_Witness ==
    /\ pc = "done"
    /\ arrival = EmptyStore
    /\ ~ Get(arrival, clientURL).ok
    /\ inner.count = 1
    /\ inner.status = 302
    /\ NoTargetSet
    /\ ResponseStatus = 302

C28_EmittedIsStored ==
    (pc = "done" /\ Failures = {})
    => \A t \in Targets :
        LET value == HeaderGet(ResponseHeaders, t)
            text  == Extracted(t, value)
        IN  value # Empty => (ParseOK(text) /\ Parse(text).path \in DOMAIN store)

\* C29: for every obscured URL O the handler emitted in a rewritten header
\* for original URL U, a later request to O, with no eviction or clear in
\* between, is delegated with request URL exactly U, query and host
\* included, whatever was emitted before.
C29_EmitConsume ==
    pc = "done"
    => \A t \in Targets :
        Called(Call("Put", t, TRUE))
        => LET U == Parse(Extracted(t, HeaderGet(inner.hdr, t)))
           IN  Deobscure(Get(store, Obscure(U)), Obscure(U)) = U

\* C30: a request calls store.Remove at most once and only when the
\* captured status is 404, and the only mapping it can remove is the one
\* keyed by the path of the URL the client requested.
C30_RemovesOnlyRequested ==
    pc = "done"
    => /\ Cardinality(CallsOf("Remove")) <= 1
       /\ CallsOf("Remove") # {} => inner.status = 404
       /\ \A k \in DOMAIN arrival \ DOMAIN store : k = clientURL.path

\* C31: when WriteHeader was never called on the responseWriter in the
\* request, by the wrapped handler or by http.Error, Do calls no WriteHeader
\* on the underlying http.ResponseWriter; otherwise it writes the captured
\* status before the captured body; it writes the body only when the
\* captured body is not empty.
C31_DoWritesCaptured ==
    pc = "done"
    => LET captured == inner.status # 0 \/ Failures # {}
           content  == inner.body # "" \/ Failures # {}
       IN  /\ ~ captured => TransportCalls("WriteHeader") = {}
           /\ captured => /\ TransportCalls("WriteHeader") = {1}
                          /\ transport[1].code = (IF Failures # {} THEN 500 ELSE inner.status)
           /\ content => TransportCalls("Write") = {Len(transport)}
           /\ ~ content => TransportCalls("Write") = {}

\* the wrapped handler wrote a body and no status, nothing failed: the
\* underlying http.ResponseWriter received the body alone
C31_Witness ==
    /\ pc = "done"
    /\ inner.status = 0
    /\ inner.body # ""
    /\ Failures = {}
    /\ Len(transport) = 1
    /\ transport[1].op = "Write"

\* C32: Write on the responseWriter transmits nothing, and the body
\* delivered at the flush is the argument of the last Write alone: the body
\* of the wrapped handler when no step failed, the message of the last
\* http.Error otherwise.
C32_LastWriteDelivered ==
    /\ pc \notin {"idle", "done"} => transport = << >>
    /\ pc = "done"
       => ResponseBody =
            Body(IF Failures # {}
                 THEN FailureMessage(calls[CHOOSE i \in Failures : \A j \in Failures : j <= i].target) \o "\n"
                 ELSE inner.body)

C37_FailedTargetUnchanged ==
    pc = "done"
    => \A t \in Targets :
        (Called(Call("Parse", t, FALSE)) \/ Called(Call("Put", t, FALSE)))
        => ResponseHeaders[t] = inner.hdr[t]

\* C39: the body delivered at the flush is the bytes passed to the last
\* Write as they were at that call, whatever became of the caller's buffer
\* afterwards.
C39_BodyNotAliased ==
    pc = "done" => \A i \in TransportCalls("Write") : transport[i].over = Empty

\* C34: every request for which the wrapped handler returns terminates, the
\* flush having been performed exactly once, whether or not the status was
\* 404 and whichever of the removal, the parses and the puts failed.
C34_FlushesOnce ==
    (pc = "remove") ~> (pc = "done" /\ Cardinality(CallsOf("Do")) = 1)

\* a request answered 404 in which the removal, a parse and a put failed
\* has completed with one flush
C34_Witness ==
    /\ pc = "done"
    /\ inner.status = 404
    /\ Called(Call("Remove", "Remove", FALSE))
    /\ \E t \in Targets : Called(Call("Parse", t, FALSE))
    /\ \E t \in Targets : Called(Call("Put", t, FALSE))
    /\ Cardinality(CallsOf("Do")) = 1

\* C35: a rewrite target that is absent or has an empty value is skipped:
\* the step for it reports no error, calls neither the transform nor
\* store.Put, and leaves the headers, the store and the captured response
\* as they are.
C35_EmptySkipped ==
    [][ LET At(t) == CASE t = Location        -> "location"
                       [] t = ContentLocation -> "contentLocation"
                       [] OTHER               -> "link"
        IN  \A t \in Targets :
              (pc = At(t) /\ HeaderGet(headers, t) = Empty)
              => (store' = store /\ headers' = headers /\ rw' = rw /\ calls' = calls) ]_vars

\* a request whose Location had an empty value and whose Link was absent
\* has completed, and nothing was done for either
C35_Witness ==
    /\ pc = "done"
    /\ inner.hdr[Location] = <<Empty>>
    /\ inner.hdr[Link] = << >>
    /\ ResponseHeaders[Location] = <<Empty>>
    /\ ResponseHeaders[Link] = << >>
    /\ \A i \in 1..Len(calls) : calls[i].target \notin {Location, Link}

\* C38: rewriting a target that the wrapped handler set with several
\* values preserves the number of values.
C38_ValuesPreserved ==
    pc = "done" => \A t \in Targets : Len(ResponseHeaders[t]) = Len(inner.hdr[t])

----------------------------------------------------------------------------
(* Properties of the store *)

\* C3: Put is insert-if-absent: a Put on an obscured path that is already a
\* key returns no error, leaves Get of that path at the original stored
\* first, whatever original it was given, and leaves the size as it was.
C3_PutInsertIfAbsent ==
    [][ (last'.op = "Put" /\ last'.obscured.path \in DOMAIN store)
        => /\ last'.err = Nil
           /\ Get(store', last'.obscured) = [url |-> store[last'.obscured.path], ok |-> TRUE]
           /\ Size(store') = Size(store) ]_vars

\* a second Put, with an original other than the stored one, has returned
C3_Witness ==
    /\ last.op = "Put"
    /\ last.obscured.path \in DOMAIN store
    /\ store[last.obscured.path] # last.original

\* C4: a published mapping never silently changes: once a Get has returned
\* an original for an obscured path, every later Get of that path returns
\* the same original, until a Remove or a Clear deletes the path.
C4_PublishedMappingStable ==
    [][ \A k \in DOMAIN published \cap DOMAIN published' : published'[k] = published[k] ]_vars

\* C8 as stated: after Put(Obscure(P), P), in whatever state the store was,
\* Get(Obscure(P)) finds a URL equal to P in all its components.
C8_RoundTripAnyState ==
    [][ (last'.op = "Put" /\ last'.obscured = Obscure(last'.original))
        => Get(store', Obscure(last'.original)) = [url |-> last'.original, ok |-> TRUE] ]_vars

\* C8 amended: after Put(Obscure(P), P) on a store where the path of
\* Obscure(P) is not a key, or is already mapped to P, Get(Obscure(P)) finds
\* a URL equal to P in all its components (scheme, host, path, query,
\* fragment).
C8_RoundTrip ==
    [][ ( /\ last'.op = "Put"
          /\ last'.obscured = Obscure(last'.original)
          /\ (last'.obscured.path \in DOMAIN store => store[last'.obscured.path] = last'.original) )
        => Get(store', Obscure(last'.original)) = [url |-> last'.original, ok |-> TRUE] ]_vars

\* a URL with a host and a query has been put under its own obscured form
C8_Witness ==
    /\ last.op = "Put"
    /\ last.obscured = Obscure(last.original)
    /\ last.original.host # Empty
    /\ last.original.rawQuery # Empty
    /\ Get(store, last.obscured).ok
    /\ Get(store, last.obscured).url = last.original

\* C24: Remove is an idempotent deletion: it returns no error; removing an
\* absent path leaves the store unchanged; removing a present path deletes
\* that mapping and leaves every other mapping unchanged; a second Remove
\* changes nothing more.
C24_RemoveIdempotent ==
    [][ last'.op = "Remove"
        => /\ last'.err = Nil
           /\ last'.obscured.path \notin DOMAIN store => store' = store
           /\ DOMAIN store' = DOMAIN store \ {last'.obscured.path}
           /\ \A k \in DOMAIN store' : store'[k] = store[k]
           /\ Remove(store', last'.obscured) = store' ]_vars

\* a Remove has returned and the store still holds another mapping
C24_Witness ==
    /\ last.op = "Remove"
    /\ ~ Get(store, last.obscured).ok
    /\ Size(store) >= 1

\* the orders in which the pairs of a batch can be applied
Orders(batch) ==
    { [i \in 1..Len(batch) |-> batch[f[i]]] :
        f \in { g \in [1..Len(batch) -> 1..Len(batch)] :
                  \A i, j \in 1..Len(batch) : g[i] = g[j] => i = j } }

\* the pairs of a batch that have a given obscured path
PairsAt(batch, k) == { i \in 1..Len(batch) : batch[i].obscured.path = k }

\* the store a Load leaves is the one Put on every pair leaves: it has the
\* keys it had, with the originals it had, and every path of the batch
\* that was no key, with the original of the first pair applied for it
LoadedByPut(before, batch, after) ==
    /\ DOMAIN after = DOMAIN before \cup { batch[i].obscured.path : i \in 1..Len(batch) }
    /\ \A k \in DOMAIN before : after[k] = before[k]
    /\ \A k \in DOMAIN after \ DOMAIN before :
        after[k] = batch[First(PairsAt(batch, k))].original

\* no two pairs of the batch have one obscured path and different originals
NoConflict(batch) ==
    \A i, j \in 1..Len(batch) :
        batch[i].obscured.path = batch[j].obscured.path => batch[i].original = batch[j].original

\* C25 as stated: Load returns no error, leaves the store Put on every pair
\* leaves, existing keys keeping their first-seen original, and that store
\* is the same in whatever order the pairs are applied.
C25_LoadAnyOrder ==
    [][ last'.op = "Load"
        => /\ last'.err = Nil
           /\ LoadedByPut(store, last'.batch, store')
           /\ \A other \in Orders(last'.batch) : Load(store, other) = store' ]_vars

\* C25 amended: Load returns no error and leaves the store Put on every
\* pair leaves, existing keys keeping their first-seen original; that store
\* is the same in whatever order the pairs are applied when no two pairs of
\* the batch have the same obscured path and different originals.
C25_LoadIsBulkPut ==
    [][ last'.op = "Load"
        => /\ last'.err = Nil
           /\ LoadedByPut(store, last'.batch, store')
           /\ NoConflict(last'.batch)
              => \A other \in Orders(last'.batch) : Load(store, other) = store' ]_vars

\* a Load of two pairs with different obscured paths, one of them a key
\* already mapped to another original, has returned
C25_Witness ==
    /\ last.op = "Load"
    /\ Len(last.batch) = 2
    /\ last.batch[1].obscured.path # last.batch[2].obscured.path
    /\ \E i \in 1..2 : store[last.batch[i].obscured.path] # last.batch[i].original

\* C27: every obscured path is a key at most once and maps to one original
\* URL; Size returns the number of obscured paths for which Get reports
\* found, and that is 0 after Clear.
C27_SizeCountsFound ==
    /\ \A k \in DOMAIN store : store[k] \in StoreURLs
    /\ Size(store) = Cardinality({ o.path : o \in { x \in ObscuredURLs : Get(store, x).ok } })
    /\ last.op = "Size" => last.size = Size(store)
    /\ last.op = "Clear" => (Size(store) = 0 /\ \A o \in ObscuredURLs : ~ Get(store, o).ok)

\* Size has returned 2
C27_Witness ==
    /\ last.op = "Size"
    /\ last.size = 2
    /\ \E o \in ObscuredURLs : Get(store, o).ok

\* C26: when request A's Put(K, U) and request B's Remove(K) run
\* concurrently, every interleaving ends with K absent or K mapped to U, and
\* with every other key as it was.
C26_PutRemoveRace ==
    (gor.A.pc = "done" /\ gor.B.pc = "done")
    => /\ \/ gor.A.obscured.path \notin DOMAIN store
          \/ store[gor.A.obscured.path] = gor.A.original
       /\ DOMAIN store \ {gor.A.obscured.path} = DOMAIN arrival \ {gor.A.obscured.path}
       /\ \A k \in DOMAIN store \ {gor.A.obscured.path} : store[k] = arrival[k]

\* both have returned, K was mapped to another original, another key was
\* there, and the Put came last: K is mapped to U
C26_Witness ==
    /\ gor.A.pc = "done"
    /\ gor.B.pc = "done"
    /\ gor.A.obscured.path \in DOMAIN arrival
    /\ arrival[gor.A.obscured.path] # gor.A.original
    /\ DOMAIN arrival # {gor.A.obscured.path}
    /\ gor.A.obscured.path \in DOMAIN store
    /\ store[gor.A.obscured.path] = gor.A.original

----------------------------------------------------------------------------
(* Properties of the pure functions *)

\* the first '>' of a header value; 0 when there is none
FirstCloser(header) == IndexOf(header, ">")

\* C14: from a Link value of the form <url>..., parseLinkHeader extracts
\* exactly the text between the leading '<' and the first '>' after it,
\* also when the value holds further '>' characters.
C14_UpToFirstCloser ==
    (fn.op = "parseLinkHeader" /\ fn.in # Empty /\ Head(fn.in) = "<" /\ FirstCloser(fn.in) >= 3)
    => fn.out = SubSeq(fn.in, 2, FirstCloser(fn.in) - 1)

HexDigits == {"0", "1", "2", "3", "4", "5", "6", "7", "8", "9", "a", "b", "c", "d", "e", "f"}

\* n slashes
Slashes(n) == [i \in 1..n |-> "/"]

\* a path without the slashes it begins with
WithoutLeadingSlashes(p) ==
    LET n == CHOOSE k \in 0..Len(p) :
                 SubSeq(p, 1, k) = Slashes(k) /\ (k < Len(p) => p[k + 1] # "/")
    IN  SubSeq(p, n + 1, Len(p))

\* a path without its first character when that is a slash
WithoutOneLeadingSlash(p) == IF p # Empty /\ p[1] = "/" THEN SubSeq(p, 2, Len(p)) ELSE p

\* the character two hexadecimal digits render; "?" for one no path holds
UnhexByte(pair) ==
    IF \E c \in PathChars : HexByte(c) = pair
    THEN CHOOSE c \in PathChars : HexByte(c) = pair
    ELSE "?"

RECURSIVE Unhex(_)
\* the bytes a text of hexadecimal digit pairs renders
Unhex(h) ==
    IF Len(h) < 2 THEN Empty ELSE <<UnhexByte(SubSeq(h, 1, 2))>> \o Unhex(Drop(h, 2))

\* what a reader of an obscured path can compute from it alone: the bytes
\* rendered between the leading slash and the last 32 digits
Decode(path) == Unhex(SubSeq(path, 2, Len(path) - Len(EmptyDigestHex)))

\* C17: Obscure(u) equals u in every component except the path, and its
\* path is "/" followed by the lowercase hexadecimal rendering of
\* md5.New().Sum applied to u's path without its leading slashes: the bytes
\* of that trimmed path followed by the digest of the empty hash.
C17_ObscureResult ==
    fn.op = "Obscure"
    => /\ [fn.out EXCEPT !.path = fn.in.path] = fn.in
       /\ Head(fn.out.path) = "/"
       /\ \A i \in 2..Len(fn.out.path) : fn.out.path[i] \in HexDigits
       /\ Len(fn.out.path) = 1 + 2 * Len(WithoutLeadingSlashes(fn.in.path)) + Len(EmptyDigestHex)
       /\ Decode(fn.out.path) = WithoutLeadingSlashes(fn.in.path)
       /\ Drop(fn.out.path, Len(fn.out.path) - Len(EmptyDigestHex)) = EmptyDigestHex

\* Obscure has returned for a URL with a host, a query and a fragment whose
\* path begins with two slashes and goes on
C17_Witness ==
    /\ fn.op = "Obscure"
    /\ fn.in.host # Empty /\ fn.in.rawQuery # Empty /\ fn.in.fragment # Empty
    /\ IsPrefix(<<"/", "/", "a">>, fn.in.path)
    /\ fn.out.path # fn.in.path

\* C18: the obscured path has the same length for all input paths, of any
\* length.
C18_FixedWidth ==
    fn.op = "Obscure" => Len(fn.out.path) = Len(fn.before.out.path)

\* C19: the original path cannot be computed from the obscured path alone.
C19_OneDirectional ==
    (fn.op = "Obscure" /\ Len(fn.in.path) >= 2)
    => <<"/">> \o Decode(fn.out.path) # fn.in.path

\* C20 as stated: two URLs receive the same obscured path only if their
\* paths are equal after removing one leading slash.
C20_SameOnlyIfEqualAfterOneSlash ==
    (fn.op = "Obscure" /\ fn.out.path = fn.before.out.path)
    => WithoutOneLeadingSlash(fn.in.path) = WithoutOneLeadingSlash(fn.before.in.path)

\* C20 amended: Obscure strips every leading slash before transforming: two
\* URLs receive the same obscured path if and only if their paths are
\* equal after removing all their leading slashes.
C20_SameIffEqualAfterAllSlashes ==
    fn.op = "Obscure"
    => ( fn.out.path = fn.before.out.path
         <=> WithoutLeadingSlashes(fn.in.path) = WithoutLeadingSlashes(fn.before.in.path) )

\* two URLs with different paths have received the same obscured path
C20_Witness ==
    /\ fn.op = "Obscure"
    /\ fn.in.path # fn.before.in.path
    /\ WithoutLeadingSlashes(fn.in.path) # Empty
    /\ fn.out.path = fn.before.out.path

\* C21: Obscure is pure and deterministic: every call on a URL returns the
\* same result, whatever calls were made before and whatever calls run at
\* the same time on the Default obscurer and its lazily created hash.
C21_ObscureDeterministic ==
    \A g \in DOMAIN gor :
        /\ gor[g].pc # "panicked"
        /\ gor[g].pc = "returned" => gor[g].obscured = Obscure(gor[g].original)

----------------------------------------------------------------------------
(* Properties of the middleware *)

\* the status line the client receives: the code of the WriteHeader the
\* underlying http.ResponseWriter received first, 200 when a Write came first
WireStatus ==
    IF transport = << >> THEN 0
    ELSE IF transport[1].op = "Write" THEN 200 ELSE transport[1].code

\* the place of a rewrite target in the order Location, Content-Location, Link
TargetRank(t) == CASE t = Location -> 1 [] t = ContentLocation -> 2 [] OTHER -> 3

\* the calls the middleware made in this request
MiddlewareCalls == { i \in 1..Len(calls) : calls[i].by = Middleware }

\* C22: when the handler wraps the middleware, which wraps a handler that
\* sets a rewrite target to a URL U and answers 200, and no step fails, the
\* client receives status 200 and that header with U replaced by Obscure(U),
\* obscured once, and the store is not empty afterwards.
C22_ComposedRewrite ==
    (pc = "done" /\ inner.status = 200 /\ Failures = {})
    => \A t \in Targets :
        LET value == HeaderGet(inner.hdr, t)
            text  == Extracted(t, value)
        IN  (value # Empty /\ text # Empty /\ ParseOK(text))
            => /\ WireStatus = 200
               /\ HeaderGet(ResponseHeaders, t) = Spliced(t, value)
               /\ store # EmptyStore

\* C23: the middleware rewrites outbound headers only: it never calls
\* store.Get or store.Remove, it hands the request URL on as it received
\* it, it takes the rewrite targets in the order Location,
\* Content-Location, Link, and it makes one Put for each header it set,
\* right after setting it, whose mapping the store then holds.
C23_OutboundOnly ==
    /\ \A i \in MiddlewareCalls : calls[i].call \notin {"Get", "Remove"}
    /\ pc \notin {"idle", "mwDelegate"} => (inner.count = 1 /\ inner.url = rURL)
    /\ \A i \in MiddlewareCalls, j \in MiddlewareCalls :
        (i < j /\ calls[i].target \in Targets /\ calls[j].target \in Targets)
        => TargetRank(calls[i].target) <= TargetRank(calls[j].target)
    /\ \A t \in Targets :
        /\ Cardinality({ i \in CallsOf("Put") : calls[i].target = t })
             = Cardinality({ i \in CallsOf("Set") : calls[i].target = t })
        /\ Cardinality({ i \in CallsOf("Put") : calls[i].target = t }) <= 1
        /\ \A i \in CallsOf("Set") : calls[i + 1].call = "Put" /\ calls[i + 1].target = calls[i].target
        /\ (Called(By(Middleware, Call("Put", t, TRUE))) /\ CallsOf("Remove") = {})
           => Obscure(Parse(Extracted(t, HeaderGet(inner.hdr, t)))).path \in DOMAIN store

\* the middleware has rewritten the three targets of one response, in a
\* request the handler had deobscured, and has flushed
C23_Witness ==
    /\ pc = "done"
    /\ rURL # clientURL
    /\ \A t \in Targets : Called(By(Middleware, Call("Put", t, TRUE)))
    /\ Called(By(Middleware, Call("Flush", "Flush", TRUE)))

====
